---- MODULE Spec2Model ----
(***************************************************************************)
(* Model of pan2players/main.go: the Game controller (Update, Draw,        *)
(* initAudioIfNeeded, lerp) and the SingleChannelStream filter (Read).     *)
(*                                                                         *)
(* float64 values are fixed-point integers with One standing for 1.0       *)
(* (resolution 1/One); every product is rounded to nearest, symmetrically  *)
(* in the sign, as IEEE-754 multiplication is.  Byte slices are functions  *)
(* on 0..len-1 so that indices are the Go indices.  Objects created by     *)
(* the audio library (contexts, decoded streams, players) are numbered in  *)
(* order of creation; Nil is the nil pointer.                              *)
(***************************************************************************)
EXTENDS Integers, Sequences, FiniteSets, TLC

VARIABLES
    count,          \* Game.count
    xpos,           \* Game.xpos (fixed point)
    panning,        \* Game.panning (fixed point)
    playerLeft,     \* Game.playerLeft: Nil or a player id
    playerRight,    \* Game.playerRight: Nil or a player id
    audioContext,   \* Game.audioContext: Nil or a context id
    contexts,       \* number of audio contexts created so far
    streamPos,      \* decoded stream id -> read position (bytes) of that instance
    filters,        \* SingleChannelStream id -> [src, isLeft]
    players,        \* player id -> [stream, volume, playing, plays]
    exited,         \* the process was terminated by log.Fatal
    out,            \* SingleChannelStream id -> bytes its Reads returned so far
    last            \* the most recent Read: filter, n, err, buffers; NoRead before

vars == <<count, xpos, panning, playerLeft, playerRight, audioContext, contexts,
          streamPos, filters, players, exited, out, last>>

(***************************************************************************)
(* Bounds of the model.                                                    *)
(***************************************************************************)
\* Update calls explored by SpecPan: one full pan cycle.
MaxCount == 600
\* Update calls explored by Spec, where Updates interleave with audio pulls.
MaxMixCount == 2
\* Bytes a filter may deliver in SpecRead.
MaxStream == 24
\* Bytes a filter may deliver in Spec.
MaxMixStream == 8
\* Length of the buffer the caller hands to Read.
BufLen == 16

(***************************************************************************)
(* Program constants.                                                      *)
(***************************************************************************)
screenWidth == 640
\* A stereo float32 frame: 4 bytes left + 4 bytes right.
FrameBytes == 8
SampleBytes == 4
\* (1.0/60.0)*2*math.Pi*0.1 radians per tick: a full cycle every 600 ticks.
TicksPerCycle == 600

Nil == 0

(***************************************************************************)
(* Fixed-point float64.                                                    *)
(***************************************************************************)
One == 100 * 100

Abs(a) == IF a < 0 THEN -a ELSE a

Sgn(a) == IF a < 0 THEN -1 ELSE 1

\* a * b, rounded to nearest
FMul(a, b) == Sgn(a) * Sgn(b) * ((Abs(a) * Abs(b) + One \div 2) \div One)

\* a / k for an integer-valued k > 0, rounded to nearest
FDivInt(a, k) == Sgn(a) * ((Abs(a) + k \div 2) \div k)

FMin(a, b) == IF a <= b THEN a ELSE b

\* math.Pi/4, math.Pi and 2*math.Pi at resolution 1/One
Pi4 == 7854
Pi == 4 * Pi4
TwoPi == 8 * Pi4

\* Coefficients of math.Cos's polynomials at resolution 1/One, highest power first.
SinCoef == <<0, 0, 0, -2, 83, -1667>>
CosCoef == <<0, 0, 0, 0, -14, 417>>

RECURSIVE Horner(_, _, _, _)
Horner(coef, zz, k, acc) ==
    IF k > Len(coef) THEN acc
    ELSE Horner(coef, zz, k + 1, FMul(acc, zz) + coef[k])

\* math.Cos: octant reduction, then the sine or cosine polynomial.
Cos(r) ==
    LET x  == Abs(r)
        j0 == (x * 4) \div Pi
        odd == j0 % 2 = 1
        y  == IF odd THEN j0 + 1 ELSE j0
        j1 == y % 8
        z  == x - y * Pi4
        j2 == IF j1 > 3 THEN j1 - 4 ELSE j1
        sign == (j1 > 3) # (j2 > 1)
        zz == FMul(z, z)
        v  == IF j2 = 1 \/ j2 = 2
              THEN z + FMul(FMul(z, zz), Horner(SinCoef, zz, 2, SinCoef[1]))
              ELSE One - FMul(One \div 2, zz)
                       + FMul(FMul(zz, zz), Horner(CosCoef, zz, 2, CosCoef[1]))
    IN IF sign THEN -v ELSE v

\* r := float64(g.count) * ((1.0 / 60.0) * 2 * math.Pi) * 0.1
Phase(c) == (c * TwoPi + TicksPerCycle \div 2) \div TicksPerCycle

\* Faulty variants of XPos: the cosine subtracted; the amplitude doubled.
XPosMirrored(c) == (screenWidth \div 2) * One - Cos(Phase(c)) * (screenWidth \div 2)
XPosFullAmplitude(c) == (screenWidth \div 2) * One + Cos(Phase(c)) * screenWidth
\* (float64(screenWidth) / 2) + math.Cos(r)*(float64(screenWidth)/2)
XPos(c) == (screenWidth \div 2) * One + Cos(Phase(c)) * (screenWidth \div 2)

\* func lerp(a, b, t float64) float64 { return a*(1-t) + b*t }
lerp(a, b, t) == FMul(a, One - t) + FMul(b, t)

\* lerp(-1, 1, g.xpos/float64(screenWidth))
Pan(x) == lerp(-One, One, FDivInt(x, screenWidth))

\* leftVolume := math.Min(g.panning*-1+1, 1)
LeftVolume(pan) == FMin(FMul(pan, -One) + One, One)

\* Faulty variant of RightVolume: the left channel's law.
RightVolumeAsLeft(pan) == FMin(FMul(pan, -One) + One, One)
\* rightVolume := math.Min(g.panning+1, 1)
RightVolume(pan) == FMin(pan + One, One)

(***************************************************************************)
(* The audio library's objects, as initAudioIfNeeded uses them.  An audio  *)
(* state is the record of the fields initAudioIfNeeded reads and writes.   *)
(***************************************************************************)
AudioState ==
    [audioContext |-> audioContext, contexts |-> contexts, streamPos |-> streamPos,
     filters |-> filters, players |-> players, playerLeft |-> playerLeft,
     playerRight |-> playerRight, exited |-> exited, out |-> out]

\* How the four fallible steps of initAudioIfNeeded may end.
InitOutcomes == {"ok", "decodeLeft", "newPlayerLeft", "decodeRight", "newPlayerRight"}

\* audio.NewContext(sampleRate)
NewContext(a) == [a EXCEPT !.contexts = @ + 1, !.audioContext = a.contexts + 1]

\* vorbis.DecodeF32(bytes.NewReader(raudio.Ragtime_ogg)): a new decoded stream at
\* position 0, wrapped by audio.NewInfiniteLoop; its id is Len(a.streamPos) after.
DecodeF32(a) == [a EXCEPT !.streamPos = Append(@, 0)]

\* func NewSingleChannelStream(src io.ReadSeeker, isLeft bool) *SingleChannelStream
NewSingleChannelStream(a, src, isLeft) ==
    [a EXCEPT !.filters = Append(@, [src |-> src, isLeft |-> isLeft]),
              !.out = Append(@, <<>>)]

\* g.audioContext.NewPlayerF32(stream): a paused player at full volume
NewPlayerF32(a, stream) ==
    [a EXCEPT !.players =
        Append(@, [stream |-> stream, volume |-> One, playing |-> FALSE, plays |-> 0])]

\* (*audio.Player).Play
Play(a, p) == [a EXCEPT !.players[p].playing = TRUE, !.players[p].plays = @ + 1]

\* (*audio.Player).SetVolume
SetVolume(ps, p, v) == IF p \in DOMAIN ps THEN [ps EXCEPT ![p].volume = v] ELSE ps

\* Faulty variant of Fatal: the error is logged and the process lives on.
LogAndReturn(a) == a
\* log.Fatal(err): prints and calls os.Exit(1); no statement after it runs.
Fatal(a) == [a EXCEPT !.exited = TRUE]

\* Faulty variant of InitNeeded: the guard is gone.
AlwaysInit(a) == TRUE
\* if g.playerLeft != nil { return }
InitNeeded(a) == a.playerLeft = Nil

\* Faulty variant of RightSource: both filters wrap the first decode.
SharedSource(oggSL, oggSR) == oggSL
\* The stream the right filter wraps: oggSR, the second decode.
RightSource(oggSL, oggSR) == oggSR

\* func (g *Game) initAudioIfNeeded(), ending as `outcome` says
initAudioIfNeeded(a, outcome) ==
    IF ~InitNeeded(a) THEN a
    ELSE
    LET a1 == IF a.audioContext = Nil THEN NewContext(a) ELSE a
    IN  IF outcome = "decodeLeft" THEN Fatal(a1)
        ELSE
        LET a2 == DecodeF32(a1)
            oggSL == Len(a2.streamPos)
            a3 == NewSingleChannelStream(a2, oggSL, TRUE)
            leftStream == Len(a3.filters)
        IN  IF outcome = "newPlayerLeft" THEN Fatal([a3 EXCEPT !.playerLeft = Nil])
            ELSE
            LET a4 == NewPlayerF32(a3, leftStream)
                a5 == [a4 EXCEPT !.playerLeft = Len(a4.players)]
            IN  IF outcome = "decodeRight" THEN Fatal(a5)
                ELSE
                LET a6 == DecodeF32(a5)
                    oggSR == Len(a6.streamPos)
                    a7 == NewSingleChannelStream(a6, RightSource(oggSL, oggSR), FALSE)
                    rightStream == Len(a7.filters)
                IN  IF outcome = "newPlayerRight"
                    THEN Fatal([a7 EXCEPT !.playerRight = Nil])
                    ELSE
                    LET a8 == NewPlayerF32(a7, rightStream)
                        a9 == [a8 EXCEPT !.playerRight = Len(a8.players)]
                    IN  Play(Play(a9, a9.playerLeft), a9.playerRight)

(***************************************************************************)
(* The Game's operations.                                                  *)
(***************************************************************************)
NoRead == [f |-> Nil]

\* The zero-valued Game of main: g := &Game{}
Init ==
    /\ count = 0
    /\ xpos = 0
    /\ panning = 0
    /\ playerLeft = Nil
    /\ playerRight = Nil
    /\ audioContext = Nil
    /\ contexts = 0
    /\ streamPos = <<>>
    /\ filters = <<>>
    /\ players = <<>>
    /\ exited = FALSE
    /\ out = <<>>
    /\ last = NoRead

\* func (g *Game) Update() error, for at most maxc ticks
Update(maxc) ==
    /\ ~exited
    /\ count < maxc
    /\ \E outcome \in IF InitNeeded(AudioState) THEN InitOutcomes ELSE {"ok"} :
        LET c == count + 1
            x == XPos(c)
            pan == Pan(x)
            a == initAudioIfNeeded(AudioState, outcome)
        IN  /\ count' = c
            /\ xpos' = x
            /\ panning' = pan
            /\ audioContext' = a.audioContext
            /\ contexts' = a.contexts
            /\ streamPos' = a.streamPos
            /\ filters' = a.filters
            /\ playerLeft' = a.playerLeft
            /\ playerRight' = a.playerRight
            /\ exited' = a.exited
            /\ out' = a.out
            /\ players' =
                IF a.exited THEN a.players
                ELSE SetVolume(SetVolume(a.players, a.playerLeft, LeftVolume(pan)),
                               a.playerRight, RightVolume(pan))
            /\ UNCHANGED last

\* ebiten.RunGame calls Update at least once before Draw, and calls neither once
\* the process has exited.
HostMayDraw == ~exited /\ count >= 1

\* g.playerLeft.Position(): the position of the stream the left player pulls from
Position(p) == streamPos[filters[players[p].stream].src]

\* func (g *Game) Draw(screen *ebiten.Image): reads g.playerLeft.Position(),
\* g.panning and g.xpos and renders them; it writes no field of the Game and no
\* audio object.  A nil g.playerLeft would panic in Position().
Draw ==
    /\ HostMayDraw
    /\ playerLeft \in DOMAIN players
    /\ Position(playerLeft) >= 0
    /\ UNCHANGED vars

UpdatePan == Update(MaxCount)

NextPan == UpdatePan \/ Draw

\* The controller alone, over a full pan cycle.
SpecPan == Init /\ [][NextPan]_vars

(***************************************************************************)
(* SingleChannelStream.                                                    *)
(***************************************************************************)
\* What an io.Reader may report besides success.
Errors == {"nil", "EOF", "ErrUnexpected"}

\* Byte i of the decoded audio: non-zero, the first sixteen being 1..16.
SourceByte(i) == (i % 255) + 1

\* The caller's buffer before the call: BufLen bytes of earlier, non-zero content.
CallerBuffer == [i \in 0 .. BufLen - 1 |-> 170]

\* s.ReadSeeker.Read(p) returning n: the stream's next n bytes land in p[0:n].
UnderlyingRead(pos, p, n) ==
    [i \in DOMAIN p |-> IF i < n THEN SourceByte(pos + i) ELSE p[i]]

\* Faulty variant of FrameComplete: a partial last frame is entered too.
AnyByteLeft(i, n) == i < n /\ i + FrameBytes <= BufLen
\* The loop condition of Read: i+8 <= n
FrameComplete(i, n) == i + FrameBytes <= n

\* Faulty variant of Silence: the channels exchanged.
SilenceSwapped(p, i, isLeft) ==
    [k \in DOMAIN p |->
        IF isLeft /\ k \in i .. i + SampleBytes - 1 THEN 0
        ELSE IF ~isLeft /\ k \in i + SampleBytes .. i + FrameBytes - 1 THEN 0
        ELSE p[k]]
\* The loop body of Read: silence the right channel if s.isLeft, else the left.
Silence(p, i, isLeft) ==
    [k \in DOMAIN p |->
        IF isLeft /\ k \in i + SampleBytes .. i + FrameBytes - 1 THEN 0
        ELSE IF ~isLeft /\ k \in i .. i + SampleBytes - 1 THEN 0
        ELSE p[k]]

\* for i := 0; i+8 <= n; i += 8 { ... }
RECURSIVE ZeroLoop(_, _, _, _)
ZeroLoop(p, n, isLeft, i) ==
    IF FrameComplete(i, n)
    THEN ZeroLoop(Silence(p, i, isLeft), n, isLeft, i + FrameBytes)
    ELSE p

\* Faulty variant of ReadResult: only the whole frames are reported.
ReturnWholeFrames(isLeft, p, n, err) ==
    [n |-> n - (n % FrameBytes), err |-> err, p |-> ZeroLoop(p, n, isLeft, 0)]
\* What Read returns, given what the underlying Read returned (n, err) and left in p.
ReadResult(isLeft, p, n, err) ==
    [n |-> n, err |-> err, p |-> ZeroLoop(p, n, isLeft, 0)]

\* p[0:n] as a sequence
Returned(p, n) == [k \in 1 .. n |-> p[k - 1]]

\* func (s *SingleChannelStream) Read(p []byte) (int, error) on filter f, the
\* underlying stream delivering n bytes and err; at most `limit` bytes per stream.
Read(f, limit) ==
    /\ ~exited
    /\ f \in DOMAIN filters
    /\ \E n \in 0 .. BufLen, err \in Errors :
        LET src == filters[f].src
            pos == streamPos[src]
            delivered == UnderlyingRead(pos, CallerBuffer, n)
            r == ReadResult(filters[f].isLeft, delivered, n, err)
        IN  /\ pos + n <= limit
            /\ streamPos' = [streamPos EXCEPT ![src] = pos + n]
            /\ out' = [out EXCEPT ![f] = @ \o Returned(r.p, r.n)]
            /\ last' = [f |-> f, isLeft |-> filters[f].isLeft, pos |-> pos,
                        before |-> CallerBuffer, delivered |-> delivered,
                        under |-> [n |-> n, err |-> err],
                        n |-> r.n, err |-> r.err, p |-> r.p]
            /\ UNCHANGED <<count, xpos, panning, playerLeft, playerRight,
                           audioContext, contexts, filters, players, exited>>

\* No audio object exists yet.
NoAudio ==
    [audioContext |-> Nil, contexts |-> 0, streamPos |-> <<>>, filters |-> <<>>,
     players |-> <<>>, playerLeft |-> Nil, playerRight |-> Nil, exited |-> FALSE,
     out |-> <<>>]

\* A filter on its own: NewSingleChannelStream(src, isLeft) over a fresh stream.
InitRead ==
    /\ count = 0
    /\ xpos = 0
    /\ panning = 0
    /\ playerLeft = Nil
    /\ playerRight = Nil
    /\ audioContext = Nil
    /\ contexts = 0
    /\ players = <<>>
    /\ exited = FALSE
    /\ last = NoRead
    /\ \E isLeft \in BOOLEAN :
        LET a == NewSingleChannelStream(DecodeF32(NoAudio), 1, isLeft)
        IN  /\ streamPos = a.streamPos
            /\ filters = a.filters
            /\ out = a.out

ReadFilter == \E f \in DOMAIN filters : Read(f, MaxStream)

NextRead == ReadFilter

\* One filter read by an arbitrary caller over an arbitrary underlying stream.
SpecRead == InitRead /\ [][NextRead]_vars

\* The audio subsystem refills a playing player's buffer from its stream.
Pull(p) ==
    /\ p \in DOMAIN players
    /\ players[p].playing
    /\ Read(players[p].stream, MaxMixStream)

UpdateMix == Update(MaxMixCount)

PullLeft == playerLeft # Nil /\ Pull(playerLeft)

PullRight == playerRight # Nil /\ Pull(playerRight)

Next == UpdateMix \/ Draw \/ PullLeft \/ PullRight

\* The whole program: the host loop's Update and Draw interleaved with the audio
\* subsystem's pulls.
Spec == Init /\ [][Next]_vars

(***************************************************************************)
(* Properties of one Read (SpecRead).                                      *)
(***************************************************************************)
Frames == 0 .. (BufLen \div FrameBytes)

\* The 16-byte buffer of the scenario after keep-left and after keep-right.
KeptLeft == <<1, 2, 3, 4, 0, 0, 0, 0, 9, 10, 11, 12, 0, 0, 0, 0>>
KeptRight == <<0, 0, 0, 0, 5, 6, 7, 8, 0, 0, 0, 0, 13, 14, 15, 16>>

\* C1: after a Read returning n bytes, in every complete frame k (8k+8 <= n) the
\* silenced channel's four bytes are zero and the kept channel's four bytes are
\* the bytes the underlying stream delivered; the buffer 1..16 becomes KeptLeft
\* under keep-left and KeptRight under keep-right.
C1_FramesIsolated ==
    last.f # Nil =>
        /\ \A k \in Frames :
            FrameBytes * k + FrameBytes <= last.n =>
                LET lo == FrameBytes * k
                    leftBytes == lo .. lo + SampleBytes - 1
                    rightBytes == lo + SampleBytes .. lo + FrameBytes - 1
                    kept == IF last.isLeft THEN leftBytes ELSE rightBytes
                    silenced == IF last.isLeft THEN rightBytes ELSE leftBytes
                IN  /\ \A j \in silenced : last.p[j] = 0
                    /\ \A j \in kept : last.p[j] = last.delivered[j]
        /\ (last.pos = 0 /\ last.n = 16) =>
                Returned(last.p, 16) = IF last.isLeft THEN KeptLeft ELSE KeptRight

\* C1 witness: the keep-left filter has read the sixteen bytes 1..16.
C1_Witness ==
    /\ last.f # Nil
    /\ last.isLeft
    /\ last.n = 16
    /\ Returned(last.delivered, 16) = [k \in 1 .. 16 |-> k]
    /\ Returned(last.p, 16) = KeptLeft

\* C7: Read returns the n and the err of the underlying Read, whatever they are.
C7_ResultPropagated ==
    last.f # Nil => last.n = last.under.n /\ last.err = last.under.err

\* C7 witness: the underlying stream failed after delivering a partial frame.
C7_Witness ==
    /\ last.f # Nil
    /\ last.under.err = "ErrUnexpected"
    /\ last.under.n = 12
    /\ last.n = 12
    /\ last.err = "ErrUnexpected"

\* C8: the bytes after the last complete frame, [8*(n div 8), n), are as the
\* underlying stream delivered them, and the bytes at n and beyond are as the
\* caller passed them.
C8_TailUntouched ==
    last.f # Nil =>
        \A j \in DOMAIN last.p :
            /\ (FrameBytes * (last.n \div FrameBytes) <= j /\ j < last.n)
                    => last.p[j] = last.delivered[j]
            /\ j >= last.n => last.p[j] = last.before[j]

\* C8 witness: a keep-right Read of 12 bytes, whose last four are a partial frame.
C8_Witness ==
    /\ last.f # Nil
    /\ ~last.isLeft
    /\ last.n = 12
    /\ Returned(last.p, 12) = <<0, 0, 0, 0, 5, 6, 7, 8, 9, 10, 11, 12>>
    /\ last.p[12] = CallerBuffer[12]

\* C2: whatever the sizes of the Reads, the bytes a filter has returned are as
\* long as what its stream delivered and, in every complete frame counted from
\* the start of the stream, the silenced channel is zero and the kept one is the
\* source's.
C2_StreamIsolated ==
    \A f \in DOMAIN filters :
        /\ Len(out[f]) = streamPos[filters[f].src]
        /\ \A k \in 0 .. (Len(out[f]) \div FrameBytes) :
            FrameBytes * k + FrameBytes <= Len(out[f]) =>
                \A j \in FrameBytes * k .. FrameBytes * k + FrameBytes - 1 :
                    LET keptByte == (j % FrameBytes < SampleBytes) = filters[f].isLeft
                    IN  out[f][j + 1] = IF keptByte THEN SourceByte(j) ELSE 0

(***************************************************************************)
(* Properties of the controller (SpecPan).                                 *)
(***************************************************************************)
\* An Update has run to its end: count was advanced and the process lives.
Updated == count >= 1 /\ ~exited

\* C3, as stated: at tick counter 0 the Pan Position is exactly -1, the law
\* maps phase 0 to -1, and the sequence Update produces starts at the left
\* extreme.
C3_StartsLeft ==
    /\ Pan(XPos(0)) = -One
    /\ count = 0 => panning = -One
    /\ count = 1 => panning <= -(One - One \div 100)

\* C3, amended: phase 0 has cosine +1, horizontal position screenWidth and Pan
\* Position exactly +1; before the first Update the fields hold their zero
\* values; Update advances the counter first, so its sequence starts at tick 1
\* within 0.01 of the right extreme; the left extreme, -1 at position 0, is
\* reached at tick 300.
C3_StartsRight ==
    /\ Cos(Phase(0)) = One
    /\ XPos(0) = screenWidth * One
    /\ Pan(XPos(0)) = One
    /\ count = 0 => panning = 0 /\ xpos = 0
    /\ count = 1 => panning >= One - One \div 100 /\ panning <= One
    /\ count = TicksPerCycle \div 2 => panning = -One /\ xpos = 0

\* C3 witness: the first Update has run and left the pan at the right.
C3_Witness == count = 1 /\ panning >= One - One \div 100 /\ xpos > (screenWidth - 1) * One

\* C4: after any number of Updates, panning is in [-1, 1] and xpos in
\* [0, screenWidth].
C4_PanInRange ==
    /\ -One <= panning /\ panning <= One
    /\ 0 <= xpos /\ xpos <= screenWidth * One

\* C4 witness: half a cycle in, the pan sits on the lower end of its range.
C4_Witness == count = TicksPerCycle \div 2 /\ panning = -One /\ xpos = 0

\* C5: once an Update has ended, the left player's volume is min(1, 1 - panning)
\* and the right player's min(1, 1 + panning) for the panning of that tick, both
\* within [0, 1]; panning 0 gives 1 and 1, panning 1 gives 0 and 1, panning -1
\* gives 1 and 0.
C5_LinearGains ==
    Updated =>
        LET l == players[playerLeft].volume
            r == players[playerRight].volume
        IN  /\ l = (IF One - panning < One THEN One - panning ELSE One)
            /\ r = (IF One + panning < One THEN One + panning ELSE One)
            /\ 0 <= l /\ l <= One /\ 0 <= r /\ r <= One
            /\ panning = 0 => l = One /\ r = One
            /\ panning = One => l = 0 /\ r = One
            /\ panning = -One => l = One /\ r = 0

\* C5 witness: a quarter cycle in, the pan is centred and both gains are 1.
C5_Witness ==
    /\ Updated
    /\ panning = 0
    /\ players[playerLeft].volume = One
    /\ players[playerRight].volume = One

\* C6: once an Update has ended, exactly one context, two decodes, two filters
\* and two players exist, they are the ones the first Update made, and each player
\* was started exactly once.
C6_BuiltOnce ==
    Updated =>
        /\ contexts = 1 /\ audioContext = 1
        /\ Len(streamPos) = 2
        /\ filters = <<[src |-> 1, isLeft |-> TRUE], [src |-> 2, isLeft |-> FALSE]>>
        /\ Len(players) = 2
        /\ playerLeft = 1 /\ playerRight = 2
        /\ players[1].stream = 1 /\ players[2].stream = 2
        /\ \A p \in DOMAIN players : players[p].playing /\ players[p].plays = 1

\* C6 witness: a later Update has found the players in place.
C6_Witness == Updated /\ count = 3 /\ playerLeft = 1 /\ Len(players) = 2

\* C9: a failed initialization step ends the process there: after it no Update
\* or Draw can run, no gain was set and no player was started; a live process
\* past its first Update has both players, playing; exactly one player exists
\* only in a process that has exited.
C9_FailFast ==
    /\ count >= 1 /\ ~exited =>
            /\ playerLeft # Nil /\ playerRight # Nil
            /\ players[playerLeft].playing /\ players[playerRight].playing
    /\ (playerLeft = Nil) # (playerRight = Nil) => exited
    /\ exited =>
            /\ ~ENABLED UpdatePan
            /\ ~ENABLED Draw
            /\ count = 1
            /\ \A p \in DOMAIN players :
                  players[p].volume = One /\ ~players[p].playing /\ players[p].plays = 0
    /\ ENABLED Draw =>
            /\ playerLeft # Nil /\ playerRight # Nil
            /\ players[playerLeft].playing /\ players[playerRight].playing

\* C9 witness: the right decode failed after the left player was made.
C9_Witness ==
    /\ exited
    /\ playerLeft = 1
    /\ playerRight = Nil
    /\ Len(streamPos) = 1
    /\ ~players[1].playing

(***************************************************************************)
(* Properties of the whole program (Spec).                                 *)
(***************************************************************************)
\* What a filter has returned is its own stream's bytes, in order and from the
\* start, each either passed or silenced: nobody else consumed from its stream.
OwnBytesOnly ==
    \A f \in DOMAIN filters :
        /\ Len(out[f]) = streamPos[filters[f].src]
        /\ \A j \in 1 .. Len(out[f]) : out[f][j] \in {0, SourceByte(j - 1)}

\* A step leaves every filter but f where it was.
OthersUntouched(f) ==
    \A g \in DOMAIN filters \ {f} :
        /\ out'[g] = out[g]
        /\ streamPos'[filters[g].src] = streamPos[filters[g].src]

\* A step leaves the controller and the players' gains where they were.
ControllerUntouched ==
    UNCHANGED <<count, xpos, panning, playerLeft, playerRight, audioContext,
                contexts, filters, players, exited>>

\* A step leaves the streams that exist, and what was read from them, alone.
StreamsUntouched ==
    /\ \A f \in DOMAIN out : out'[f] = out[f]
    /\ \A d \in DOMAIN streamPos : streamPos'[d] = streamPos[d]
    /\ last' = last

\* C10: however Updates and the pulls on the two filters interleave, a filter
\* returns only its own stream's bytes; a pull on one filter changes neither the
\* other filter's position or bytes nor the counter, pan or gains; and an Update
\* changes no stream position and no returned byte.
C10_NoInterference ==
    /\ []OwnBytesOnly
    /\ [][/\ PullLeft => OthersUntouched(players[playerLeft].stream)
                           /\ ControllerUntouched
          /\ PullRight => OthersUntouched(players[playerRight].stream)
                            /\ ControllerUntouched
          /\ UpdateMix => StreamsUntouched]_vars

\* C10 witness: both filters were pulled, by different amounts, between Updates.
C10_Witness ==
    /\ count = 2
    /\ playerLeft # Nil /\ playerRight # Nil
    /\ Len(out[1]) = 8
    /\ Len(out[2]) = 3
    /\ streamPos = <<8, 3>>
    /\ players[playerLeft].volume < One

====
